---- MODULE Spec2Model ----
(***************************************************************************)
(* Financial controlling dataset generator (generate_financial_dataset.py) *)
(*                                                                         *)
(* Every builder of the generator is modelled as a loop that appends rows  *)
(* to a table; one action is one iteration of the builder's loop body.     *)
(* Every call of random.* / numpy.random.* is a nondeterministic choice    *)
(* (\E) over the values the call can return.                               *)
(*                                                                         *)
(* Money is fixed point.  A Python float holding an amount rounded to two  *)
(* decimals is an integer number of hundredths (hal); round(x, 2) is       *)
(* RoundDiv: the nearest hundredth, and on an exact decimal tie either     *)
(* neighbour, because the binary float nearest to the tie lies on either   *)
(* side of it (round(2.675, 2) = 2.67, round(1820.065, 2) = 1820.07).      *)
(***************************************************************************)
EXTENDS Integers, Sequences, FiniteSets, TLC

\* ------------------------------------------------------------------------
\* Arithmetic helpers
\* ------------------------------------------------------------------------

Min(a, b) == IF a <= b THEN a ELSE b

Max(a, b) == IF a >= b THEN a ELSE b

Abs(a) == IF a >= 0 THEN a ELSE 0 - a

\* round(num/den, ndigits) for num >= 0, den > 0, in units of the result's last
\* digit: the set of values Python's round can return.
RoundDiv(num, den) ==
    LET q == num \div den
        r == num % den
    IN  IF 2 * r < den THEN {q}
        ELSE IF 2 * r > den THEN {q + 1}
        ELSE {q, q + 1}

\* The decimal digits of n >= 0, most significant first ("0" for 0)
RECURSIVE Digits(_)
Digits(n) == IF n < 10 THEN <<n>> ELSE Append(Digits(n \div 10), n % 10)

\* str(n).zfill(w) and f'{n:0wd}': the digits, zero-padded on the left to width w
ZPad(n, w) ==
    LET d == Digits(n) IN
    IF Len(d) >= w THEN d ELSE [i \in 1..(w - Len(d)) |-> 0] \o d

\* round(x * mul / den, ndigits) for x >= 0 in units of the result's last digit,
\* with the product split so that it stays below 2^31
MulDivRound(x, mul, den) ==
    {(x \div den) * mul + t : t \in RoundDiv((x % den) * mul, den)}

Range(s) == {s[i] : i \in DOMAIN s}

\* All sequences over S of length 0..n.
SeqUpTo(S, n) == UNION {[1..k -> S] : k \in 0..n}

\* ------------------------------------------------------------------------
\* Calendar of the generated periods
\* ------------------------------------------------------------------------

YearFirst == 2023

YearLast == 2025

MonthsPerYear == 12

\* f'{year}-{month:02d}': the year and the two digits of the month.
Obdobi(year, month) == <<year>> \o ZPad(month, 2)

\* ------------------------------------------------------------------------
\* gen_mzdy: payroll, one row per active employee and month
\* ------------------------------------------------------------------------

\* Bounds of the employee tables given to gen_mzdy
MaxZam == 2

\* number of grid points of random.uniform(0, hruba * 0.15)
OdmenaSteps == 3

\* round(random.uniform(28000, 120000), 0): whole crowns
HrubaVals == {28000, 28001, 120000}

StavZam == {"Aktivni", "Neaktivni"}

ZamRows == [stav : StavZam, hruba : HrubaVals]

VARIABLES
    zamestnanci,   \* the employee table (input): Seq of [stav, hruba]; row i is EMP(i)
    mzdy_pc,       \* "idle" | "loop" | "done"
    mzdy_emps,     \* indexes of the rows with stav = 'Aktivni', in table order
    mzdy_i,        \* position in mzdy_emps (outer loop)
    mzdy_year,     \* middle loop
    mzdy_month,    \* inner loop
    mzdy_keys,     \* (zamestnanec_id, obdobi) of every row appended, in order
    mzdy_row       \* the row appended last, amounts in hal; cista_mzda in 1/10 hal

mzdyVars == <<zamestnanci, mzdy_pc, mzdy_emps, mzdy_i, mzdy_year, mzdy_month,
              mzdy_keys, mzdy_row>>

NoRow == [none |-> TRUE]

\* zamestnanci[zamestnanci['stav'] == 'Aktivni']
RECURSIVE ActiveFrom(_, _)
ActiveFrom(tab, i) ==
    IF i > Len(tab) THEN <<>>
    ELSE (IF tab[i].stav = "Aktivni" THEN <<i>> ELSE <<>>) \o ActiveFrom(tab, i + 1)

ActiveEmps(tab) == ActiveFrom(tab, 1)

\* round(random.uniform(0, hruba * 0.15), 2) if random.random() < 0.2 else 0
\* hruba in crowns, result in hal: a grid over [0, hruba * 15], ends included.
OdmenaDraws(hruba) ==
    {0} \cup {(k * hruba * 15) \div OdmenaSteps : k \in 0..OdmenaSteps}

\* cista + odmena * 0.7, in 1/10 hal (the sum is not rounded)
CistaMzda(cista, odmena) == cista * 10 + odmena * 7

\* soc_zam, zdr_zam and dan of one row (lines 325, 326, 329); hruba in crowns,
\* h = hruba in hal.  (TLC's integers are 32 bit: the products stay below 2^31.)
Srazky(hruba) ==
    LET h == hruba * 100 IN
    UNION { { <<soc_zam, zdr_zam, dan>> :
                dan \in RoundDiv(Max(0, (h - soc_zam - zdr_zam) * 15), 100) } :
            <<soc_zam, zdr_zam>> \in RoundDiv(hruba * 65, 10) \X RoundDiv(hruba * 45, 10) }

\* soc_firm and zdr_firm of one row (lines 327, 328)
Odvody(hruba) == RoundDiv(hruba * 248, 10) \X RoundDiv(hruba * 9, 1)

\* The body of the innermost loop for one employee and period.  hruba in crowns.
MzdyRows(emp, hruba, year, month) ==
    LET h == hruba * 100 IN
    { [zamestnanec_id |-> emp, obdobi |-> Obdobi(year, month),
       zakladni_mzda |-> h, odmeny |-> t[3], hruba_mzda_celkem |-> h + t[3],
       soc_pojisteni_zam |-> t[1][1], zdr_pojisteni_zam |-> t[1][2],
       soc_pojisteni_firma |-> t[2][1], zdr_pojisteni_firma |-> t[2][2],
       dan_z_prijmu |-> t[1][3],
       cista_mzda |-> CistaMzda(h - t[1][1] - t[1][2] - t[1][3], t[3]),
       celkove_naklady_firma |-> h + t[3] + t[2][1] + t[2][2]] :
      t \in Srazky(hruba) \X Odvody(hruba) \X OdmenaDraws(hruba) }

MzdyInit ==
    /\ zamestnanci \in SeqUpTo(ZamRows, MaxZam)
    /\ mzdy_pc = "loop"
    /\ mzdy_emps = ActiveEmps(zamestnanci)
    /\ mzdy_i = 1
    /\ mzdy_year = YearFirst
    /\ mzdy_month = 1
    /\ mzdy_keys = <<>>
    /\ mzdy_row = NoRow

MzdyIdle ==
    /\ zamestnanci = <<>>
    /\ mzdy_pc = "idle"
    /\ mzdy_emps = <<>>
    /\ mzdy_i = 1
    /\ mzdy_year = YearFirst
    /\ mzdy_month = 1
    /\ mzdy_keys = <<>>
    /\ mzdy_row = NoRow

\* one iteration of "for month in range(1, 13)" (lines 325-338)
MzdyRow ==
    /\ mzdy_pc = "loop"
    /\ mzdy_i <= Len(mzdy_emps)
    /\ LET emp == mzdy_emps[mzdy_i] IN
       \E row \in MzdyRows(emp, zamestnanci[emp].hruba, mzdy_year, mzdy_month) :
          /\ mzdy_row' = row
          /\ mzdy_keys' = Append(mzdy_keys, <<emp, row.obdobi>>)
    /\ IF mzdy_month < MonthsPerYear
       THEN /\ mzdy_month' = mzdy_month + 1
            /\ UNCHANGED <<mzdy_year, mzdy_i>>
       ELSE /\ mzdy_month' = 1
            /\ IF mzdy_year < YearLast
               THEN mzdy_year' = mzdy_year + 1 /\ UNCHANGED mzdy_i
               ELSE mzdy_year' = YearFirst /\ mzdy_i' = mzdy_i + 1
    /\ UNCHANGED <<zamestnanci, mzdy_pc, mzdy_emps>>

\* the outer loop is exhausted: return save(DataFrame(rows), 'fact_mzdy.csv')
MzdySave ==
    /\ mzdy_pc = "loop"
    /\ mzdy_i > Len(mzdy_emps)
    /\ mzdy_pc' = "done"
    /\ UNCHANGED <<zamestnanci, mzdy_emps, mzdy_i, mzdy_year, mzdy_month,
                   mzdy_keys, mzdy_row>>

\* ------------------------------------------------------------------------
\* gen_budget: plan and actual per cost center, sampled account and month
\* ------------------------------------------------------------------------

\* Bound of the cost-center tables given to gen_budget
MaxStr == 2

\* "if len(budget_ucty) > 40: sample 40" and "min(8, len(budget_ucty))", scaled:
\* the source's 40 and 8
BudgetCap == 3

BudgetPick == 2

\* str(num).zfill(3)
ZFill3(num) == ZPad(num, 3)

\* Rows (ucet_cislo, typ) as gen_ucty emits them: 231 from (231, 2, Pasiva), 591
\* from (591, 3, Naklady), 601 and 602 from (601, 5, Vynosy), 602 again from
\* (602, 5, Vynosy).  The account tables given to gen_budget are the sub-tables.
BudgetUctyRef ==
    << [ucet_cislo |-> ZFill3(231), typ |-> "Pasiva"],
       [ucet_cislo |-> ZFill3(591), typ |-> "Naklady"],
       [ucet_cislo |-> ZFill3(601), typ |-> "Vynosy"],
       [ucet_cislo |-> ZFill3(602), typ |-> "Vynosy"],
       [ucet_cislo |-> ZFill3(602), typ |-> "Vynosy"] >>

RECURSIVE SubTable(_, _, _)
SubTable(tab, keep, i) ==
    IF i > Len(tab) THEN <<>>
    ELSE (IF i \in keep THEN <<tab[i]>> ELSE <<>>) \o SubTable(tab, keep, i + 1)

BudgetUctyTables == {SubTable(BudgetUctyRef, keep, 1) : keep \in SUBSET (1..Len(BudgetUctyRef))}

\* random.sample(population, k): k elements at pairwise distinct positions, in
\* the order drawn
Samples(population, k) ==
    { [i \in 1..k |-> population[f[i]]] :
        f \in {g \in [1..k -> 1..Len(population)] :
                 \A a, b \in 1..k : a # b => g[a] # g[b]} }

\* ucty[ucty['typ'].isin(['Naklady','Vynosy'])]['ucet_cislo'].tolist()
RECURSIVE EligibleFrom(_, _)
EligibleFrom(tab, i) ==
    IF i > Len(tab) THEN <<>>
    ELSE (IF tab[i].typ \in {"Naklady", "Vynosy"} THEN <<tab[i].ucet_cislo>> ELSE <<>>)
         \o EligibleFrom(tab, i + 1)

BudgetEligible(tab) == EligibleFrom(tab, 1)

\* min(8, len(budget_ucty)), the size of one cost center's sample
PickSizeAll(list) == Len(list)

PickSize(list) == Min(BudgetPick, Len(list))

VARIABLES
    bud_strediska,  \* str_list (input): cost center i is STR(i)
    bud_ucty,       \* the account table (input): Seq of [ucet_cislo, typ]
    bud_pc,         \* "idle" | "start" | "strid" | "rows" | "done"
    budget_ucty,    \* the accounts budgeted, after the filter and the cap
    bud_s,          \* position in str_list (outer loop)
    bud_sample,     \* the accounts sampled for the current cost center
    bud_j,          \* position in bud_sample
    bud_year,
    bud_month,
    bud_n,          \* number of rows appended
    bud_blok        \* (stredisko_id, ucet_cislo, obdobi) of the rows appended for
                    \* the current cost center, in order

budVars == <<bud_strediska, bud_ucty, bud_pc, budget_ucty, bud_s, bud_sample, bud_j,
             bud_year, bud_month, bud_n, bud_blok>>

BudgetInit ==
    /\ bud_strediska \in {[i \in 1..k |-> i] : k \in 0..MaxStr}
    /\ bud_ucty \in BudgetUctyTables
    /\ bud_pc = "start"
    /\ budget_ucty = <<>>
    /\ bud_s = 1
    /\ bud_sample = <<>>
    /\ bud_j = 1
    /\ bud_year = YearFirst
    /\ bud_month = 1
    /\ bud_n = 0
    /\ bud_blok = <<>>

BudgetIdle ==
    /\ bud_strediska = <<>>
    /\ bud_ucty = <<>>
    /\ bud_pc = "idle"
    /\ budget_ucty = <<>>
    /\ bud_s = 1
    /\ bud_sample = <<>>
    /\ bud_j = 1
    /\ bud_year = YearFirst
    /\ bud_month = 1
    /\ bud_n = 0
    /\ bud_blok = <<>>

\* lines 476-480: the filter, and the cap when more than BudgetCap accounts pass it
BudgetFilter ==
    /\ bud_pc = "start"
    /\ LET all == BudgetEligible(bud_ucty) IN
       IF Len(all) > BudgetCap
       THEN budget_ucty' \in Samples(all, BudgetCap)
       ELSE budget_ucty' = all
    /\ bud_pc' = "strid"
    /\ UNCHANGED <<bud_strediska, bud_ucty, bud_s, bud_sample, bud_j, bud_year,
                   bud_month, bud_n, bud_blok>>

\* line 484: the next cost center and its sample
BudgetSample ==
    /\ bud_pc = "strid"
    /\ bud_s <= Len(bud_strediska)
    /\ \E smp \in Samples(budget_ucty, PickSize(budget_ucty)) :
          /\ bud_sample' = smp
          /\ IF smp = <<>>
             THEN bud_s' = bud_s + 1 /\ bud_pc' = "strid"
             ELSE bud_s' = bud_s /\ bud_pc' = "rows"
    /\ bud_j' = 1
    /\ bud_year' = YearFirst
    /\ bud_month' = 1
    /\ bud_blok' = <<>>
    /\ UNCHANGED <<bud_strediska, bud_ucty, budget_ucty, bud_n>>

\* lines 487-493: one row.  plan, skutecnost and the variances are drawn per row
\* and read by nothing else; the row is modelled by its key columns.
BudgetRow ==
    /\ bud_pc = "rows"
    /\ bud_blok' = Append(bud_blok, <<bud_strediska[bud_s], bud_sample[bud_j],
                                      Obdobi(bud_year, bud_month)>>)
    /\ bud_n' = bud_n + 1
    /\ IF bud_month < MonthsPerYear
       THEN /\ bud_month' = bud_month + 1
            /\ UNCHANGED <<bud_year, bud_j, bud_s, bud_pc>>
       ELSE /\ bud_month' = 1
            /\ IF bud_year < YearLast
               THEN bud_year' = bud_year + 1 /\ UNCHANGED <<bud_j, bud_s, bud_pc>>
               ELSE /\ bud_year' = YearFirst
                    /\ IF bud_j < Len(bud_sample)
                       THEN bud_j' = bud_j + 1 /\ UNCHANGED <<bud_s, bud_pc>>
                       ELSE bud_j' = 1 /\ bud_s' = bud_s + 1 /\ bud_pc' = "strid"
    /\ UNCHANGED <<bud_strediska, bud_ucty, budget_ucty, bud_sample>>

\* lines 495-497: return save(DataFrame(rows), 'fact_budget.csv')
BudgetSave ==
    /\ bud_pc = "strid"
    /\ bud_s > Len(bud_strediska)
    /\ bud_pc' = "done"
    /\ UNCHANGED <<bud_strediska, bud_ucty, budget_ucty, bud_s, bud_sample, bud_j,
                   bud_year, bud_month, bud_n, bud_blok>>

\* ------------------------------------------------------------------------
\* gen_ucty: the chart of accounts, expanded from the fixed groups table
\* ------------------------------------------------------------------------

\* (range_start, count, trida, typ, skupina); the name template of a group is
\* identified by the group's position
Groups ==
    <<
       <<11, 5, 0, "Aktiva", "Dlouhodoby nehmotny majetek">>,
       <<21, 8, 0, "Aktiva", "Dlouhodoby hmotny majetek">>,
       <<31, 5, 0, "Aktiva", "Dlouhodoby financni majetek">>,
       <<41, 3, 0, "Aktiva", "Opravky k DNM">>,
       <<51, 5, 0, "Aktiva", "Opravky k DHM">>,
       <<111, 5, 1, "Aktiva", "Zasoby materialu">>,
       <<121, 5, 1, "Aktiva", "Zasoby NV">>,
       <<131, 5, 1, "Aktiva", "Zasoby vyrobku">>,
       <<211, 3, 2, "Aktiva", "Financni ucty">>,
       <<221, 5, 2, "Aktiva", "Financni ucty">>,
       <<231, 2, 2, "Pasiva", "Financni ucty">>,
       <<311, 5, 3, "Aktiva", "Pohledavky">>,
       <<321, 5, 3, "Pasiva", "Zavazky">>,
       <<331, 3, 3, "Pasiva", "Zuctovani se zamestnanci">>,
       <<341, 3, 3, "Pasiva", "Dane">>,
       <<343, 2, 3, "Pasiva", "Dane">>,
       <<361, 3, 3, "Pasiva", "Ostatni zavazky">>,
       <<381, 5, 3, "Aktiva", "Prechodne ucty">>,
       <<411, 3, 4, "Pasiva", "Vlastni kapital">>,
       <<421, 3, 4, "Pasiva", "Fondy">>,
       <<431, 2, 4, "Pasiva", "Vysledek hospodareni">>,
       <<451, 3, 4, "Pasiva", "Rezervy">>,
       <<461, 3, 4, "Pasiva", "Dlouhodobe zavazky">>,
       <<501, 8, 5, "Naklady", "Spotrebovane nakupy">>,
       <<511, 5, 5, "Naklady", "Sluzby">>,
       <<521, 5, 5, "Naklady", "Osobni naklady">>,
       <<531, 3, 5, "Naklady", "Dane a poplatky">>,
       <<541, 5, 5, "Naklady", "Ostatni provozni naklady">>,
       <<551, 5, 5, "Naklady", "Odpisy">>,
       <<561, 5, 5, "Naklady", "Financni naklady">>,
       <<591, 3, 5, "Naklady", "Dane z prijmu">>,
       <<601, 5, 6, "Vynosy", "Trzby za vlastni vyrobky">>,
       <<602, 5, 6, "Vynosy", "Trzby za sluzby">>,
       <<604, 5, 6, "Vynosy", "Trzby za zbozi">>,
       <<641, 5, 6, "Vynosy", "Ostatni provozni vynosy">>,
       <<661, 5, 6, "Vynosy", "Financni vynosy">>
    >>

VARIABLES
    ucty_pc,     \* "idle" | "loop" | "done"
    ucty_g,      \* position in Groups (outer loop)
    ucty_j,      \* j of "for j in range(count)"
    ucty_rows,   \* the rows appended: [ucet_cislo, ucet_nazev, typ, skupina, trida]
    ucty_stav    \* stav of the row appended last

uctyVars == <<ucty_pc, ucty_g, ucty_j, ucty_rows, ucty_stav>>

UctyInit ==
    /\ ucty_pc = "loop"
    /\ ucty_g = 1
    /\ ucty_j = 0
    /\ ucty_rows = <<>>
    /\ ucty_stav = "none"

UctyIdle ==
    /\ ucty_pc = "idle"
    /\ ucty_g = 1
    /\ ucty_j = 0
    /\ ucty_rows = <<>>
    /\ ucty_stav = "none"

\* lines 184-186: num = start_num + j, and the row of account num
UctyRowOf(g, j) ==
    [ucet_cislo |-> ZFill3(Groups[g][1] + j), ucet_nazev |-> <<g, j + 1>>,
     typ |-> Groups[g][4], skupina |-> Groups[g][5], trida |-> Groups[g][3]]

\* one iteration of "for j in range(count)"
UctyRow ==
    /\ ucty_pc = "loop"
    /\ ucty_g <= Len(Groups)
    /\ ucty_rows' = Append(ucty_rows, UctyRowOf(ucty_g, ucty_j))
    /\ ucty_stav' \in {"aktivni", "neaktivni"}
    /\ IF ucty_j + 1 < Groups[ucty_g][2]
       THEN ucty_j' = ucty_j + 1 /\ UNCHANGED ucty_g
       ELSE ucty_j' = 0 /\ ucty_g' = ucty_g + 1
    /\ UNCHANGED ucty_pc

\* lines 187-188: return save(DataFrame(rows), 'dim_ucty.csv')
UctySave ==
    /\ ucty_pc = "loop"
    /\ ucty_g > Len(Groups)
    /\ ucty_pc' = "done"
    /\ UNCHANGED <<ucty_g, ucty_j, ucty_rows, ucty_stav>>

\* ------------------------------------------------------------------------
\* gen_transakce: accounting transactions, generated in chunks
\* ------------------------------------------------------------------------

\* Bound of the row count n given to gen_transakce
MaxTx == 5

\* chunk_size, the source's 50000 scaled
ChunkSize == 2

\* Account lists given to gen_transakce: two or three entries over two account
\* numbers, both present (the list may repeat a number, as gen_ucty's does).
TxUcetLists ==
    {l \in [1..2 -> {ZFill3(343), ZFill3(344)}] \cup [1..3 -> {ZFill3(343), ZFill3(344)}] :
        Cardinality(Range(l)) >= 2}

\* f'TX{tx_id:07d}'
TxIdOf(id) == <<"TX">> \o ZPad(id, 7)

\* the test of "while ucet_dal == ucet_md"
SameAccountNever(md, dal) == FALSE

SameAccount(md, dal) == dal = md

\* pd.concat(chunks, ignore_index=True): the rows of the chunks in order
RECURSIVE Concat(_)
Concat(chunks) ==
    IF chunks = <<>> THEN <<>> ELSE Head(chunks) \o Concat(Tail(chunks))

VARIABLES
    tx_n,            \* n (input)
    tx_ucet_list,    \* ucet_list (input)
    tx_pc,           \* "idle" | "chunk" | "row" | "while" | "done" | "raised"
    tx_chunk_start,  \* chunk_start of range(0, n, chunk_size)
    tx_cn,           \* cn
    tx_i,            \* i of range(cn)
    tx_id,           \* tx_id
    tx_md,           \* ucet_md of the row being built
    tx_dal,          \* ucet_dal of the row being built
    tx_redrawn,      \* the while body ran for the row being built
    tx_rows,         \* rows of the current chunk: [transakce_id, ucet_md, ucet_dal]
    tx_chunks,       \* chunks
    tx_df            \* the table returned

txVars == <<tx_n, tx_ucet_list, tx_pc, tx_chunk_start, tx_cn, tx_i, tx_id, tx_md,
            tx_dal, tx_redrawn, tx_rows, tx_chunks, tx_df>>

NoAccount == <<>>

TxInit ==
    /\ tx_n \in 0..MaxTx
    /\ tx_ucet_list \in TxUcetLists
    /\ tx_pc = "chunk"
    /\ tx_chunk_start = 0
    /\ tx_cn = 0
    /\ tx_i = 0
    /\ tx_id = 1
    /\ tx_md = NoAccount
    /\ tx_dal = NoAccount
    /\ tx_redrawn = FALSE
    /\ tx_rows = <<>>
    /\ tx_chunks = <<>>
    /\ tx_df = <<>>

TxIdle ==
    /\ tx_n = 0
    /\ tx_ucet_list = <<>>
    /\ tx_pc = "idle"
    /\ tx_chunk_start = 0
    /\ tx_cn = 0
    /\ tx_i = 0
    /\ tx_id = 1
    /\ tx_md = NoAccount
    /\ tx_dal = NoAccount
    /\ tx_redrawn = FALSE
    /\ tx_rows = <<>>
    /\ tx_chunks = <<>>
    /\ tx_df = <<>>

\* lines 276-282: the next chunk_start of range(0, n, chunk_size)
TxChunkBegin ==
    /\ tx_pc = "chunk"
    /\ tx_chunk_start < tx_n
    /\ tx_cn' = Min(ChunkSize, tx_n - tx_chunk_start)
    /\ tx_rows' = <<>>
    /\ tx_i' = 0
    /\ tx_pc' = "row"
    /\ UNCHANGED <<tx_n, tx_ucet_list, tx_chunk_start, tx_id, tx_md, tx_dal,
                   tx_redrawn, tx_chunks, tx_df>>

\* lines 283-290: the next i of range(cn), and the two account draws
TxDraw ==
    /\ tx_pc = "row"
    /\ tx_i < tx_cn
    /\ tx_md' \in Range(tx_ucet_list)
    /\ tx_dal' \in Range(tx_ucet_list)
    /\ tx_redrawn' = FALSE
    /\ tx_pc' = "while"
    /\ UNCHANGED <<tx_n, tx_ucet_list, tx_chunk_start, tx_cn, tx_i, tx_id, tx_rows,
                   tx_chunks, tx_df>>

\* lines 291-292: while ucet_dal == ucet_md: ucet_dal = random.choice(ucet_list)
TxRedraw ==
    /\ tx_pc = "while"
    /\ SameAccount(tx_md, tx_dal)
    /\ tx_dal' \in Range(tx_ucet_list)
    /\ tx_redrawn' = TRUE
    /\ UNCHANGED <<tx_n, tx_ucet_list, tx_pc, tx_chunk_start, tx_cn, tx_i, tx_id,
                   tx_md, tx_rows, tx_chunks, tx_df>>

\* lines 294-305: the loop is left, the row is appended, tx_id += 1
TxAppend ==
    /\ tx_pc = "while"
    /\ ~SameAccount(tx_md, tx_dal)
    /\ tx_rows' = Append(tx_rows, [transakce_id |-> TxIdOf(tx_id),
                                   ucet_md |-> tx_md, ucet_dal |-> tx_dal])
    /\ tx_id' = tx_id + 1
    /\ tx_i' = tx_i + 1
    /\ tx_pc' = "row"
    /\ UNCHANGED <<tx_n, tx_ucet_list, tx_chunk_start, tx_cn, tx_md, tx_dal,
                   tx_redrawn, tx_chunks, tx_df>>

\* lines 307-312: range(cn) is exhausted, the chunk's DataFrame is appended
TxChunkEnd ==
    /\ tx_pc = "row"
    /\ tx_i >= tx_cn
    /\ tx_chunks' = Append(tx_chunks, tx_rows)
    /\ tx_chunk_start' = tx_chunk_start + ChunkSize
    /\ tx_pc' = "chunk"
    /\ UNCHANGED <<tx_n, tx_ucet_list, tx_cn, tx_i, tx_id, tx_md, tx_dal,
                   tx_redrawn, tx_rows, tx_df>>

\* lines 314-315: range(0, n, chunk_size) is exhausted.  pd.concat raises
\* ValueError("No objects to concatenate") on an empty list of frames.
TxConcat ==
    /\ tx_pc = "chunk"
    /\ tx_chunk_start >= tx_n
    /\ IF tx_chunks = <<>>
       THEN tx_pc' = "raised" /\ UNCHANGED tx_df
       ELSE tx_pc' = "done" /\ tx_df' = Concat(tx_chunks)
    /\ UNCHANGED <<tx_n, tx_ucet_list, tx_chunk_start, tx_cn, tx_i, tx_id, tx_md,
                   tx_dal, tx_redrawn, tx_rows, tx_chunks>>

\* ------------------------------------------------------------------------
\* gen_prodeje and gen_nakupy: sales and purchases
\* ------------------------------------------------------------------------

\* Bound of the row count n given to gen_prodeje and gen_nakupy
MaxFaktur == 2

\* number of grid steps of random.uniform(20, 25000) in gen_nakupy
NakupCenaSteps == 3

\* Product rows as gen_produkty emits them (prices in hal): the cheapest and the
\* dearest sell price, and one in between.
ProduktyRef ==
    << [produkt_id |-> 1, prodejni_cena |-> 5000, nakladova_cena |-> 4500],
       [produkt_id |-> 2, prodejni_cena |-> 123457, nakladova_cena |-> 61728],
       [produkt_id |-> 3, prodejni_cena |-> 5000000, nakladova_cena |-> 2000000] >>

\* draws of random.randint(1, 100) and random.randint(1, 500): both ends and the
\* values between that make the products end in every rounding case
ProdejMnozstvi == {1, 2, 3, 7, 99, 100}

NakupMnozstvi == {1, 2, 3, 499, 500}

\* random.choice([0,0,0,0,5,10,15,20]) / 100, in percent
SlevaPct == {0, 5, 10, 15, 20}

\* random.choice([0.21, 0.15, 0.10]) and random.choice([0.21, 0.15, 0.10, 0.0])
ProdejDph == {21, 15, 10}

NakupDph == {21, 15, 10, 0}

\* round(random.uniform(20, 25000), 2), in hal: a grid over [2000, 2500000]
NakupCeny ==
    {2001, 2499999} \cup {2000 + (k * 2498000) \div NakupCenaSteps : k \in 0..NakupCenaSteps}

\* round(celkem * (1 + dph), 2) rounded to one decimal instead (in hal)
SDphOneDecimal(celkem, dph) == {10 * t : t \in MulDivRound(celkem, 100 + dph, 1000)}

\* round(celkem * (1 + dph), 2), celkem in hal and dph in percent
SDph(celkem, dph) == MulDivRound(celkem, 100 + dph, 100)

\* the rows one iteration of gen_prodeje's loop can append (lines 355-370)
ProdejRows(i, prod_df) ==
    UNION { { [faktura_id |-> <<"FAV">> \o ZPad(i + 1, 7),
               produkt_id |-> prod.produkt_id, mnozstvi |-> d[1],
               jednotkova_cena |-> prod.prodejni_cena, sleva_pct |-> d[2],
               celkem_bez_dph |-> celkem_bez_dph, dph_sazba |-> d[3],
               dph_castka |-> t[1], celkem_s_dph |-> t[2],
               nakladova_cena_celkem |-> d[1] * prod.nakladova_cena] :
              t \in MulDivRound(celkem_bez_dph, d[3], 100) \X SDph(celkem_bez_dph, d[3]) } :
            <<prod, d, celkem_bez_dph>> \in
              UNION { { <<pr, dr, c>> : c \in MulDivRound(dr[1] * pr.prodejni_cena,
                                                         100 - dr[2], 100) } :
                      <<pr, dr>> \in Range(prod_df)
                                     \X (ProdejMnozstvi \X SlevaPct \X ProdejDph) } }

\* the rows one iteration of gen_nakupy's loop can append (lines 390-401)
NakupRows(i) ==
    UNION { { [objednavka_id |-> <<"OBJ">> \o ZPad(i + 1, 6),
               mnozstvi |-> d[1], jednotkova_cena |-> d[2],
               celkem_bez_dph |-> d[1] * d[2], dph_sazba |-> d[3],
               dph_castka |-> t[1], celkem_s_dph |-> t[2]] :
              t \in MulDivRound(d[1] * d[2], d[3], 100) \X SDph(d[1] * d[2], d[3]) } :
            d \in NakupMnozstvi \X NakupCeny \X NakupDph }

VARIABLES
    pr_n,      \* n of gen_prodeje (input)
    pr_prod,   \* prod_df (input): Seq of [produkt_id, prodejni_cena, nakladova_cena]
    pr_pc,     \* "idle" | "loop" | "done"
    pr_i,      \* i of range(n) = number of rows appended
    pr_row,    \* the row appended last
    nk_n,      \* n of gen_nakupy (input)
    nk_pc,     \* "idle" | "loop" | "done"
    nk_i,      \* i of range(n) = number of rows appended
    nk_row     \* the row appended last

prVars == <<pr_n, pr_prod, pr_pc, pr_i, pr_row>>

nkVars == <<nk_n, nk_pc, nk_i, nk_row>>

ProdejeInit ==
    /\ pr_n \in 0..MaxFaktur
    /\ pr_prod \in {SubTable(ProduktyRef, keep, 1) :
                      keep \in (SUBSET (1..Len(ProduktyRef))) \ {{}}}
    /\ pr_pc = "loop"
    /\ pr_i = 0
    /\ pr_row = NoRow

ProdejeIdle ==
    /\ pr_n = 0
    /\ pr_prod = <<>>
    /\ pr_pc = "idle"
    /\ pr_i = 0
    /\ pr_row = NoRow

NakupyInit ==
    /\ nk_n \in 0..MaxFaktur
    /\ nk_pc = "loop"
    /\ nk_i = 0
    /\ nk_row = NoRow

NakupyIdle ==
    /\ nk_n = 0
    /\ nk_pc = "idle"
    /\ nk_i = 0
    /\ nk_row = NoRow

\* one iteration of gen_prodeje's "for i in range(n)"
ProdejeRow ==
    /\ pr_pc = "loop"
    /\ pr_i < pr_n
    /\ pr_row' \in ProdejRows(pr_i, pr_prod)
    /\ pr_i' = pr_i + 1
    /\ UNCHANGED <<pr_n, pr_prod, pr_pc>>

\* lines 374-378: return save(DataFrame(rows), 'fact_prodeje.csv')
ProdejeSave ==
    /\ pr_pc = "loop"
    /\ pr_i >= pr_n
    /\ pr_pc' = "done"
    /\ UNCHANGED <<pr_n, pr_prod, pr_i, pr_row>>

\* one iteration of gen_nakupy's "for i in range(n)"
NakupyRow ==
    /\ nk_pc = "loop"
    /\ nk_i < nk_n
    /\ nk_row' \in NakupRows(nk_i)
    /\ nk_i' = nk_i + 1
    /\ UNCHANGED <<nk_n, nk_pc>>

\* lines 405-408: return save(DataFrame(rows), 'fact_nakupy.csv')
NakupySave ==
    /\ nk_pc = "loop"
    /\ nk_i >= nk_n
    /\ nk_pc' = "done"
    /\ UNCHANGED <<nk_n, nk_i, nk_row>>

\* ------------------------------------------------------------------------
\* gen_strediska: cost centers with a parent reference
\* ------------------------------------------------------------------------

\* range(50), the number of cost centers, scaled
NStrediska == 6

\* Bound of the branch tables given to gen_strediska
MaxPob == 2

Typy == <<"Vyroba", "Obchod", "Administrativa", "IT", "Logistika", "Finance",
          "Marketing", "HR", "Kvalita", "R&D">>

\* f'STR{k:03d}'
StrId(k) == <<"STR">> \o ZPad(k, 3)

\* f'POB{k:02d}'
PobId(k) == <<"POB">> \o ZPad(k, 2)

None == <<"None">>

\* random.randint(1, max(1, i)) with the upper end one too far
ParentDrawsUpToSelf(i) == 1..(i + 1)

\* random.randint(1, max(1, i)), both ends included
ParentDraws(i) == 1..Max(1, i)

VARIABLES
    str_pobocky,  \* pobocky['pobocka_id'].tolist() (input)
    str_pc,       \* "idle" | "loop" | "done"
    str_i,        \* i of range(50)
    str_rows,     \* rows appended: [stredisko_id, typ, nadrazene_stredisko]
    str_pob,      \* pobocka_id of the row appended last
    str_stav      \* stav of the row appended last

strVars == <<str_pobocky, str_pc, str_i, str_rows, str_pob, str_stav>>

StrediskaInit ==
    /\ str_pobocky \in {[k \in 1..n |-> PobId(k)] : n \in 1..MaxPob}
    /\ str_pc = "loop"
    /\ str_i = 0
    /\ str_rows = <<>>
    /\ str_pob = None
    /\ str_stav = "none"

StrediskaIdle ==
    /\ str_pobocky = <<>>
    /\ str_pc = "idle"
    /\ str_i = 0
    /\ str_rows = <<>>
    /\ str_pob = None
    /\ str_stav = "none"

\* one iteration of "for i in range(50)" (lines 106-111)
StrediskaRow ==
    /\ str_pc = "loop"
    /\ str_i < NStrediska
    /\ \E parent \in IF str_i > 0 THEN {StrId(k) : k \in ParentDraws(str_i)} ELSE {None} :
          str_rows' = Append(str_rows, [stredisko_id |-> StrId(str_i + 1),
                                        typ |-> Typy[(str_i % Len(Typy)) + 1],
                                        nadrazene_stredisko |-> parent])
    /\ str_pob' \in Range(str_pobocky)
    /\ str_stav' \in {"aktivni", "neaktivni"}
    /\ str_i' = str_i + 1
    /\ UNCHANGED <<str_pobocky, str_pc>>

\* lines 112-113: return save(DataFrame(rows), 'dim_strediska.csv')
StrediskaSave ==
    /\ str_pc = "loop"
    /\ str_i >= NStrediska
    /\ str_pc' = "done"
    /\ UNCHANGED <<str_pobocky, str_i, str_rows, str_pob, str_stav>>

\* ------------------------------------------------------------------------
\* random_dates and seasonal_dates
\* ------------------------------------------------------------------------
\* A date is its number of days since DATE_START = 2023-01-01.

\* Bounds of the calls: the count n, and the length of the range in days
MaxDates == 2

MaxSpan == 3

\* First days of the ranges drawn: 2023-01-01, 2023-03-31, 2023-06-30, 2023-09-30,
\* 2023-12-31 and 2024-02-28, each followed by a change of month
DateStarts == {0, 89, 180, 272, 364, 423}

IsLeap(y) == (y % 4 = 0 /\ y % 100 # 0) \/ y % 400 = 0

MonthLen(y, m) ==
    IF m = 2 THEN (IF IsLeap(y) THEN 29 ELSE 28)
    ELSE IF m \in {4, 6, 9, 11} THEN 30 ELSE 31

\* (DATE_START + timedelta(d)).month
RECURSIVE MonthFrom(_, _, _)
MonthFrom(y, m, d) ==
    IF d < MonthLen(y, m) THEN m
    ELSE IF m = 12 THEN MonthFrom(y + 1, 1, d - MonthLen(y, m))
    ELSE MonthFrom(y, m + 1, d - MonthLen(y, m))

MonthOf(date) == MonthFrom(YearFirst, 1, date)

\* the weight of a day, in tenths (lines 46-53)
Weight(date) ==
    LET month == MonthOf(date) IN
    IF month \in {10, 11, 12} THEN 16
    ELSE IF month \in {7, 8, 9} THEN 11
    ELSE IF month \in {4, 5, 6} THEN 10
    ELSE 7

\* np.random.randint(0, high) read as if high were included
RandomDaysHighIncluded(start, end) == 0..((end - start) + 1)

\* np.random.randint(0, (end - start).days + 1): the values 0 .. (end - start).days
RandomDays(start, end) == 0..(((end - start) + 1) - 1)

\* np.random.choice(total, p=weights): the indexes below total of positive weight
SeasonalDays(start, end) ==
    LET total == (end - start) + 1 IN
    {d \in 0..(total - 1) : Weight(start + d) > 0}

VARIABLES
    dt_fn,     \* the function called: "random" | "seasonal" | "none"
    dt_n,      \* n (argument)
    dt_start,  \* start (argument)
    dt_end,    \* end (argument)
    dt_pc,     \* "idle" | "call" | "done"
    dt_out     \* the list returned

dtVars == <<dt_fn, dt_n, dt_start, dt_end, dt_pc, dt_out>>

DatesInit ==
    /\ dt_fn \in {"random", "seasonal"}
    /\ dt_n \in 0..MaxDates
    /\ dt_start \in DateStarts
    /\ dt_end \in dt_start..(dt_start + MaxSpan)
    /\ dt_pc = "call"
    /\ dt_out = <<>>

DatesIdle ==
    /\ dt_fn = "none"
    /\ dt_n = 0
    /\ dt_start = 0
    /\ dt_end = 0
    /\ dt_pc = "idle"
    /\ dt_out = <<>>

\* random_dates(n, start, end), lines 36-37
RandomDates ==
    /\ dt_pc = "call"
    /\ dt_fn = "random"
    /\ \E days \in [1..dt_n -> RandomDays(dt_start, dt_end)] :
          dt_out' = [k \in 1..dt_n |-> dt_start + days[k]]
    /\ dt_pc' = "done"
    /\ UNCHANGED <<dt_fn, dt_n, dt_start, dt_end>>

\* seasonal_dates(n, start, end), lines 41-58
SeasonalDates ==
    /\ dt_pc = "call"
    /\ dt_fn = "seasonal"
    /\ \E days \in [1..dt_n -> SeasonalDays(dt_start, dt_end)] :
          dt_out' = [k \in 1..dt_n |-> dt_start + days[k]]
    /\ dt_pc' = "done"
    /\ UNCHANGED <<dt_fn, dt_n, dt_start, dt_end>>

\* ------------------------------------------------------------------------
\* gen_produkty: products with a sell price and a cost price
\* ------------------------------------------------------------------------

\* range(300), the number of products, scaled
NProdukty == 2

\* numbers of grid steps of random.uniform(50, 50000) and random.uniform(0.1, 0.6)
CenaSteps == 8

MarzeSteps == 5

Kategorie == {"Elektronika", "Strojirenstvi", "Software", "Sluzby", "Chemie",
              "Potraviny", "Textil", "Stavebnictvi", "Automotive", "Energie"}

\* round(random.uniform(50, 50000), 2), in hal: both ends, the hal next to each,
\* and a grid between
CenaDraws ==
    {5001, 4999999} \cup {5000 + (k * 4995000) \div CenaSteps : k \in 0..CenaSteps}

\* random.uniform(0.1, 0.6), in 1/1000: a grid with both ends
MarzeDraws == {100 + (k * 500) \div MarzeSteps : k \in 0..MarzeSteps}

\* round(cena * (1 + marze), 2): the margin added instead of taken off
NakladovaCenaPlus(cena, marze) == MulDivRound(cena, 1000 + marze, 1000)

\* round(cena * (1 - marze), 2)
NakladovaCena(cena, marze) == MulDivRound(cena, 1000 - marze, 1000)

VARIABLES
    prod_pc,    \* "idle" | "loop" | "done"
    prod_i,     \* i of range(300) = number of rows appended
    prod_row,   \* the row appended last
    prod_marze  \* marze drawn for the row appended last (not a column)

prodVars == <<prod_pc, prod_i, prod_row, prod_marze>>

ProduktyInit ==
    /\ prod_pc = "loop"
    /\ prod_i = 0
    /\ prod_row = NoRow
    /\ prod_marze = 0

ProduktyIdle ==
    /\ prod_pc = "idle"
    /\ prod_i = 0
    /\ prod_row = NoRow
    /\ prod_marze = 0

\* one iteration of "for i in range(300)" (lines 213-219)
ProduktyRow ==
    /\ prod_pc = "loop"
    /\ prod_i < NProdukty
    /\ \E cena \in CenaDraws, marze \in MarzeDraws, kat \in Kategorie :
       \E naklad \in NakladovaCena(cena, marze) :
          /\ prod_row' = [produkt_id |-> <<"PRD">> \o ZPad(prod_i + 1, 4),
                          kategorie |-> kat, prodejni_cena |-> cena,
                          nakladova_cena |-> naklad]
          /\ prod_marze' = marze
    /\ prod_i' = prod_i + 1
    /\ UNCHANGED prod_pc

\* lines 220-222: return save(DataFrame(rows), 'dim_produkty.csv')
ProduktySave ==
    /\ prod_pc = "loop"
    /\ prod_i >= NProdukty
    /\ prod_pc' = "done"
    /\ UNCHANGED <<prod_i, prod_row, prod_marze>>

\* ------------------------------------------------------------------------
\* The module's seeding and main(): two runs of the program side by side
\* ------------------------------------------------------------------------
\* A run is one process: the import seeds the three generators (lines 19-22) and
\* main() calls the builders in the order of lines 511-529.  A generator is a
\* function of its state alone: a draw returns Out(state) and moves the state to
\* Advance(state).  A table is modelled by what determines its content: the
\* draws its builder made and the tables it was given.

\* Faker.seed(42), np.random.seed(42), random.seed(42)
Seed == 42

Sources == {"random", "numpy", "faker"}

Runs == {1, 2}

\* the builders in call order: the variable the result is bound to ("" when it
\* is dropped), the file saved, the variables passed, and the generators the
\* builder (and the date helper it calls) draws from
Builders ==
    << [fn |-> "gen_regiony", var |-> "regiony", file |-> "dim_regiony.csv",
        kind |-> "dim", args |-> <<>>, draws |-> {}],
       [fn |-> "gen_pobocky", var |-> "pobocky", file |-> "dim_pobocky.csv",
        kind |-> "dim", args |-> <<"regiony">>, draws |-> {"random", "faker"}],
       [fn |-> "gen_strediska", var |-> "strediska", file |-> "dim_strediska.csv",
        kind |-> "dim", args |-> <<"pobocky">>, draws |-> {"random"}],
       [fn |-> "gen_profit_centra", var |-> "profit_centra", file |-> "dim_profit_centra.csv",
        kind |-> "dim", args |-> <<"regiony">>, draws |-> {"random", "faker"}],
       [fn |-> "gen_projekty", var |-> "projekty", file |-> "dim_projekty.csv",
        kind |-> "dim", args |-> <<>>, draws |-> {"random", "faker"}],
       [fn |-> "gen_ucty", var |-> "ucty", file |-> "dim_ucty.csv",
        kind |-> "dim", args |-> <<>>, draws |-> {"random"}],
       [fn |-> "gen_zamestnanci", var |-> "zamestnanci", file |-> "dim_zamestnanci.csv",
        kind |-> "dim", args |-> <<"strediska">>, draws |-> {"random", "faker"}],
       [fn |-> "gen_produkty", var |-> "produkty", file |-> "dim_produkty.csv",
        kind |-> "dim", args |-> <<>>, draws |-> {"random", "faker"}],
       [fn |-> "gen_zakaznici", var |-> "zakaznici", file |-> "dim_zakaznici.csv",
        kind |-> "dim", args |-> <<"regiony">>, draws |-> {"random", "faker"}],
       [fn |-> "gen_dodavatele", var |-> "dodavatele", file |-> "dim_dodavatele.csv",
        kind |-> "dim", args |-> <<>>, draws |-> {"random", "faker"}],
       [fn |-> "gen_transakce", var |-> "", file |-> "fact_transakce.csv",
        kind |-> "fact",
        args |-> <<"ucty", "strediska", "projekty", "profit_centra", "pobocky">>,
        draws |-> {"random", "numpy", "faker"}],
       [fn |-> "gen_mzdy", var |-> "", file |-> "fact_mzdy.csv",
        kind |-> "fact", args |-> <<"zamestnanci">>, draws |-> {"random"}],
       [fn |-> "gen_prodeje", var |-> "", file |-> "fact_prodeje.csv",
        kind |-> "fact", args |-> <<"zakaznici", "produkty", "pobocky">>,
        draws |-> {"random", "numpy"}],
       [fn |-> "gen_nakupy", var |-> "", file |-> "fact_nakupy.csv",
        kind |-> "fact", args |-> <<"dodavatele", "produkty", "strediska">>,
        draws |-> {"random", "numpy"}],
       [fn |-> "gen_vyrobni_zakazky", var |-> "", file |-> "fact_vyrobni_zakazky.csv",
        kind |-> "fact", args |-> <<"produkty", "strediska">>, draws |-> {"random"}],
       [fn |-> "gen_cashflow", var |-> "", file |-> "fact_cashflow.csv",
        kind |-> "fact", args |-> <<"pobocky", "ucty">>, draws |-> {"random", "numpy"}],
       [fn |-> "gen_budget", var |-> "", file |-> "fact_budget.csv",
        kind |-> "fact", args |-> <<"strediska", "ucty">>, draws |-> {"random"}] >>

\* the next state of a generator, and the value a draw returns in a state
Advance(state) == (state * 5 + 3) % 64

Out(state) == (state \div 4) % 16

\* a draw from a source that was never seeded: any value
DrawUnseeded(state) == 0..15

\* a draw from a seeded generator in the given state
Draw(state) == {Out(state)}

Unbound == [unbound |-> TRUE]

VARIABLES
    m_pc,     \* per run: "idle" | "import" | "main" | "stats" | "done"
    m_k,      \* per run: the position in Builders of the next call
    m_rng,    \* per run: the state of each generator
    m_env,    \* per run: the tables bound to main's local variables
    m_saved,  \* per run: the files written, in order: [file, rows]
    m_stats   \* per run: the file count reported, or -1

mainVars == <<m_pc, m_k, m_rng, m_env, m_saved, m_stats>>

MainVarNames == {Builders[k].var : k \in DOMAIN Builders} \ {""}

MainInit ==
    /\ m_pc = [r \in Runs |-> "import"]
    /\ m_k = [r \in Runs |-> 1]
    /\ m_rng = [r \in Runs |-> [s \in Sources |-> 0]]
    /\ m_env = [r \in Runs |-> [v \in MainVarNames |-> Unbound]]
    /\ m_saved = [r \in Runs |-> <<>>]
    /\ m_stats = [r \in Runs |-> -1]

MainIdle ==
    /\ m_pc = [r \in Runs |-> "idle"]
    /\ m_k = [r \in Runs |-> 1]
    /\ m_rng = [r \in Runs |-> [s \in Sources |-> 0]]
    /\ m_env = [r \in Runs |-> [v \in MainVarNames |-> Unbound]]
    /\ m_saved = [r \in Runs |-> <<>>]
    /\ m_stats = [r \in Runs |-> -1]

\* lines 19-22, then main() is entered
MainImport(r) ==
    /\ m_pc[r] = "import"
    /\ m_rng' = [m_rng EXCEPT ![r] = [s \in Sources |-> Seed]]
    /\ m_pc' = [m_pc EXCEPT ![r] = "main"]
    /\ UNCHANGED <<m_k, m_env, m_saved, m_stats>>

\* main calling the builders bottom-up, gen_budget first
CalleeReversed(k) == Builders[Len(Builders) + 1 - k]

\* the k-th call main makes: lines 511-529 run top to bottom
Callee(k) == Builders[k]

\* one call of lines 511-529: the builder draws, builds its table from the draws
\* and the tables passed, saves it, and main binds the result
MainCall(r) ==
    /\ m_pc[r] = "main"
    /\ LET b == Callee(m_k[r]) IN
       \E d \in [b.draws -> 0..15] :
          /\ \A s \in b.draws : d[s] \in Draw(m_rng[r][s])
          /\ LET rows == [fn |-> b.fn, drawn |-> d,
                          given |-> [k \in DOMAIN b.args |-> m_env[r][b.args[k]]]]
             IN  /\ m_saved' = [m_saved EXCEPT ![r] = Append(@, [file |-> b.file, rows |-> rows])]
                 /\ m_env' = IF b.var = "" THEN m_env
                             ELSE [m_env EXCEPT ![r][b.var] = rows]
          /\ m_rng' = [m_rng EXCEPT ![r] =
                          [s \in Sources |-> IF s \in b.draws THEN Advance(@[s]) ELSE @[s]]]
    /\ m_k' = [m_k EXCEPT ![r] = @ + 1]
    /\ m_pc' = [m_pc EXCEPT ![r] = IF m_k[r] < Len(Builders) THEN "main" ELSE "stats"]
    /\ UNCHANGED m_stats

\* lines 531-538: the summary
MainStats(r) ==
    /\ m_pc[r] = "stats"
    /\ m_stats' = [m_stats EXCEPT ![r] = Cardinality({m_saved[r][k].file : k \in DOMAIN m_saved[r]})]
    /\ m_pc' = [m_pc EXCEPT ![r] = "done"]
    /\ UNCHANGED <<m_k, m_rng, m_env, m_saved>>

MainRunImport == \E r \in Runs : MainImport(r)

MainRunCall == \E r \in Runs : MainCall(r)

MainRunStats == \E r \in Runs : MainStats(r)

\* ------------------------------------------------------------------------
\* gen_regiony and gen_pobocky: regions and their branches
\* ------------------------------------------------------------------------

\* the table gen_regiony returns (lines 71-77)
Regiony ==
    <<
       [region_id |-> "REG01", region_nazev |-> "Praha", zeme |-> "CZ"],
       [region_id |-> "REG02", region_nazev |-> "Stredocesky", zeme |-> "CZ"],
       [region_id |-> "REG03", region_nazev |-> "Jihomoravsky", zeme |-> "CZ"],
       [region_id |-> "REG04", region_nazev |-> "Moravskoslezsky", zeme |-> "CZ"],
       [region_id |-> "REG05", region_nazev |-> "Plzensky", zeme |-> "CZ"],
       [region_id |-> "REG06", region_nazev |-> "Kralovehradecky", zeme |-> "CZ"],
       [region_id |-> "REG07", region_nazev |-> "Olomoucky", zeme |-> "CZ"],
       [region_id |-> "REG08", region_nazev |-> "Liberecky", zeme |-> "CZ"],
       [region_id |-> "REG09", region_nazev |-> "Bratislava", zeme |-> "SK"],
       [region_id |-> "REG10", region_nazev |-> "Wien", zeme |-> "AT"]
    >>

\* mesta (lines 82-93), in the dict's insertion order: (region id, cities)
Mesta ==
    <<
       <<"REG01", <<"Praha 1", "Praha 4", "Praha 8">>>>,
       <<"REG02", <<"Kladno", "Mlada Boleslav", "Kolin">>>>,
       <<"REG03", <<"Brno-stred", "Brno-sever", "Znojmo">>>>,
       <<"REG04", <<"Ostrava", "Frydek-Mistek", "Opava">>>>,
       <<"REG05", <<"Plzen", "Klatovy", "Rokycany">>>>,
       <<"REG06", <<"Hradec Kralove", "Trutnov", "Nachod">>>>,
       <<"REG07", <<"Olomouc", "Prerov", "Sumperk">>>>,
       <<"REG08", <<"Liberec", "Jablonec", "Ceska Lipa">>>>,
       <<"REG09", <<"Bratislava I", "Bratislava III", "Pezinok">>>>,
       <<"REG10", <<"Wien Zentrum", "Wien Nord", "Wien Sud">>>>
    >>

VARIABLES
    pob_regiony,  \* regiony (argument): a table of [region_id, region_nazev, zeme]
    pob_pc,       \* "idle" | "loop" | "done"
    pob_i,        \* i of enumerate(mesta.items())
    pob_j,        \* j of enumerate(cities)
    pob_rows,     \* rows appended: [pobocka_id, pobocka_nazev, mesto, region_id]
    pob_stav      \* stav of the row appended last

pobVars == <<pob_regiony, pob_pc, pob_i, pob_j, pob_rows, pob_stav>>

\* The region tables passed: the first R rows of gen_regiony's table, R = 0..10
\* (main passes all ten).
PobockyInit ==
    /\ pob_regiony \in {SubSeq(Regiony, 1, R) : R \in 0..Len(Regiony)}
    /\ pob_pc = "loop"
    /\ pob_i = 0
    /\ pob_j = 0
    /\ pob_rows = <<>>
    /\ pob_stav = "none"

PobockyIdle ==
    /\ pob_regiony = <<>>
    /\ pob_pc = "idle"
    /\ pob_i = 0
    /\ pob_j = 0
    /\ pob_rows = <<>>
    /\ pob_stav = "none"

\* lines 96-98: the row of city j of entry i of mesta; regiony is not read
PobockaOf(i, j) ==
    [pobocka_id |-> PobId(i * 3 + j + 1),
     pobocka_nazev |-> <<"Pobocka", Mesta[i + 1][2][j + 1]>>,
     mesto |-> Mesta[i + 1][2][j + 1],
     region_id |-> Mesta[i + 1][1]]

\* one iteration of "for j, city in enumerate(cities)"
PobockyRow ==
    /\ pob_pc = "loop"
    /\ pob_i < Len(Mesta)
    /\ pob_rows' = Append(pob_rows, PobockaOf(pob_i, pob_j))
    /\ pob_stav' \in {"aktivni", "planovana"}
    /\ IF pob_j + 1 < Len(Mesta[pob_i + 1][2])
       THEN pob_j' = pob_j + 1 /\ UNCHANGED pob_i
       ELSE pob_j' = 0 /\ pob_i' = pob_i + 1
    /\ UNCHANGED <<pob_regiony, pob_pc>>

\* lines 99-100: return save(DataFrame(rows), 'dim_pobocky.csv')
PobockySave ==
    /\ pob_pc = "loop"
    /\ pob_i >= Len(Mesta)
    /\ pob_pc' = "done"
    /\ UNCHANGED <<pob_regiony, pob_i, pob_j, pob_rows, pob_stav>>

\* ------------------------------------------------------------------------
\* gen_vyrobni_zakazky and gen_cashflow: references drawn from a filtered list
\* ------------------------------------------------------------------------

MaxZakazky == 2     \* n of gen_vyrobni_zakazky ranges over 0..MaxZakazky
MaxCashflow == 2    \* n of gen_cashflow ranges over 0..MaxCashflow

ProduktyHead == 50    \* produkty['produkt_id'].tolist()[:50]
StrediskaHead == 10   \* strediska['stredisko_id'].tolist()[:10]
UctyHead == 10        \* ucty['ucet_cislo'].tolist()[:10]

\* lines 412-413: the manufacturing categories
VyrobniKategorie ==
    {"Elektronika", "Strojirenstvi", "Chemie", "Automotive", "Textil", "Stavebnictvi"}

\* series[cond].tolist(): the entries of a list that satisfy Keep, in order
RECURSIVE Filter(_, _, _)
Filter(list, Keep(_), i) ==
    IF i > Len(list) THEN <<>>
    ELSE (IF Keep(list[i]) THEN <<list[i]>> ELSE <<>>) \o Filter(list, Keep, i + 1)

\* list[:k]
FirstOf(list, k) == SubSeq(list, 1, Min(k, Len(list)))

\* df[col].tolist(): the column of a table
Column(tab, col) == [i \in DOMAIN tab |-> tab[i][col]]

\* candidates = filtered; if not candidates: candidates = all[:k]
FilterOrHead(filtered, all, k) == IF filtered = <<>> THEN FirstOf(all, k) ELSE filtered

IsVyrobni(row) == row.kategorie \in VyrobniKategorie

IsVyroba(row) == row.typ = "Vyroba"

IsFinancni(row) == row.skupina = "Financni ucty"

\* lines 412-416
VyrProdukty(produkty) ==
    FilterOrHead(Column(Filter(produkty, IsVyrobni, 1), "produkt_id"),
                 Column(produkty, "produkt_id"), ProduktyHead)

\* lines 417-419
StrVyr(strediska) ==
    FilterOrHead(Column(Filter(strediska, IsVyroba, 1), "stredisko_id"),
                 Column(strediska, "stredisko_id"), StrediskaHead)

\* lines 451-453
CfUcetList(ucty) ==
    FilterOrHead(Column(Filter(ucty, IsFinancni, 1), "ucet_cislo"),
                 Column(ucty, "ucet_cislo"), UctyHead)

\* A table of len rows whose second column cycles through a pattern.
ProduktyTab(len, kats) ==
    [i \in 1..len |-> [produkt_id |-> <<"PRD">> \o ZPad(i, 4),
                       kategorie |-> kats[((i - 1) % Len(kats)) + 1]]]

StrediskaTab(len, typy) ==
    [i \in 1..len |-> [stredisko_id |-> StrId(i),
                       typ |-> typy[((i - 1) % Len(typy)) + 1]]]

UctyTab(len, skupiny) ==
    [i \in 1..len |-> [ucet_cislo |-> ZFill3(210 + i),
                       skupina |-> skupiny[((i - 1) % Len(skupiny)) + 1]]]

\* The tables given: empty, short, and one row longer than the head the
\* fallback takes; with and without rows that pass the filter.
VzProdukty ==
    {ProduktyTab(len, kats) : len \in {0, 2, ProduktyHead + 1},
                              kats \in {<<"Software", "Elektronika">>, <<"Software", "Sluzby">>}}

VzStrediska ==
    {StrediskaTab(len, typy) : len \in {0, 2, StrediskaHead + 1},
                               typy \in {Typy, SubSeq(Typy, 2, Len(Typy))}}

CfUcty ==
    {UctyTab(len, skupiny) : len \in {0, 2, UctyHead + 1},
                             skupiny \in {<<"Zasoby", "Financni ucty">>, <<"Zasoby", "Pohledavky">>}}

VARIABLES
    vz_produkty,      \* produkty (argument): Seq of [produkt_id, kategorie]
    vz_strediska,     \* strediska (argument): Seq of [stredisko_id, typ]
    vz_n,             \* n (argument)
    vz_pc,            \* "idle" | "start" | "loop" | "done" | "raised"
    vz_vyr_produkty,  \* vyr_produkty
    vz_str_vyr,       \* str_vyr
    vz_i,             \* rows appended so far
    vz_row            \* the row appended last: [zakazka_id, produkt_id, stredisko_id]

vzVars == <<vz_produkty, vz_strediska, vz_n, vz_pc, vz_vyr_produkty, vz_str_vyr,
            vz_i, vz_row>>

VzInit ==
    /\ vz_produkty \in VzProdukty
    /\ vz_strediska \in VzStrediska
    /\ vz_n \in 0..MaxZakazky
    /\ vz_pc = "start"
    /\ vz_vyr_produkty = <<>>
    /\ vz_str_vyr = <<>>
    /\ vz_i = 0
    /\ vz_row = NoRow

VzIdle ==
    /\ vz_produkty = <<>>
    /\ vz_strediska = <<>>
    /\ vz_n = 0
    /\ vz_pc = "idle"
    /\ vz_vyr_produkty = <<>>
    /\ vz_str_vyr = <<>>
    /\ vz_i = 0
    /\ vz_row = NoRow

\* lines 412-419: the two candidate lists
VzFilter ==
    /\ vz_pc = "start"
    /\ vz_vyr_produkty' = VyrProdukty(vz_produkty)
    /\ vz_str_vyr' = StrVyr(vz_strediska)
    /\ vz_pc' = "loop"
    /\ UNCHANGED <<vz_produkty, vz_strediska, vz_n, vz_i, vz_row>>

\* lines 423-437: one row; the columns that are not references are left out
VzRow ==
    /\ vz_pc = "loop"
    /\ vz_i < vz_n
    /\ vz_vyr_produkty # <<>>
    /\ vz_str_vyr # <<>>
    /\ \E p \in Range(vz_vyr_produkty), c \in Range(vz_str_vyr) :
          vz_row' = [zakazka_id |-> <<"VZ">> \o ZPad(vz_i + 1, 6),
                     produkt_id |-> p, stredisko_id |-> c]
    /\ vz_i' = vz_i + 1
    /\ UNCHANGED <<vz_produkty, vz_strediska, vz_n, vz_pc, vz_vyr_produkty, vz_str_vyr>>

\* lines 431, 433: random.choice of an empty list raises IndexError
VzRaise ==
    /\ vz_pc = "loop"
    /\ vz_i < vz_n
    /\ (vz_vyr_produkty = <<>> \/ vz_str_vyr = <<>>)
    /\ vz_pc' = "raised"
    /\ UNCHANGED <<vz_produkty, vz_strediska, vz_n, vz_vyr_produkty, vz_str_vyr, vz_i, vz_row>>

\* lines 439-443
VzSave ==
    /\ vz_pc = "loop"
    /\ vz_i >= vz_n
    /\ vz_pc' = "done"
    /\ UNCHANGED <<vz_produkty, vz_strediska, vz_n, vz_vyr_produkty, vz_str_vyr, vz_i, vz_row>>

VARIABLES
    cf_pobocky,    \* pobocky['pobocka_id'] of the argument
    cf_ucty,       \* ucty (argument): Seq of [ucet_cislo, skupina]
    cf_n,          \* n (argument)
    cf_pc,         \* "idle" | "start" | "loop" | "done" | "raised"
    cf_ucet_list,  \* ucet_list
    cf_i,          \* rows appended so far
    cf_row         \* the row appended last: [cashflow_id, ucet, pobocka_id]

cfVars == <<cf_pobocky, cf_ucty, cf_n, cf_pc, cf_ucet_list, cf_i, cf_row>>

CashflowInit ==
    /\ cf_pobocky \in {[k \in 1..len |-> PobId(k)] : len \in 1..MaxPob}
    /\ cf_ucty \in CfUcty
    /\ cf_n \in 0..MaxCashflow
    /\ cf_pc = "start"
    /\ cf_ucet_list = <<>>
    /\ cf_i = 0
    /\ cf_row = NoRow

CashflowIdle ==
    /\ cf_pobocky = <<>>
    /\ cf_ucty = <<>>
    /\ cf_n = 0
    /\ cf_pc = "idle"
    /\ cf_ucet_list = <<>>
    /\ cf_i = 0
    /\ cf_row = NoRow

\* lines 450-453
CashflowFilter ==
    /\ cf_pc = "start"
    /\ cf_ucet_list' = CfUcetList(cf_ucty)
    /\ cf_pc' = "loop"
    /\ UNCHANGED <<cf_pobocky, cf_ucty, cf_n, cf_i, cf_row>>

\* lines 457-468: one row; the columns that are not references are left out
CashflowRow ==
    /\ cf_pc = "loop"
    /\ cf_i < cf_n
    /\ cf_ucet_list # <<>>
    /\ \E u \in Range(cf_ucet_list), b \in Range(cf_pobocky) :
          cf_row' = [cashflow_id |-> <<"CF">> \o ZPad(cf_i + 1, 6),
                     ucet |-> u, pobocka_id |-> b]
    /\ cf_i' = cf_i + 1
    /\ UNCHANGED <<cf_pobocky, cf_ucty, cf_n, cf_pc, cf_ucet_list>>

\* line 465: random.choice of an empty list raises IndexError
CashflowRaise ==
    /\ cf_pc = "loop"
    /\ cf_i < cf_n
    /\ cf_ucet_list = <<>>
    /\ cf_pc' = "raised"
    /\ UNCHANGED <<cf_pobocky, cf_ucty, cf_n, cf_ucet_list, cf_i, cf_row>>

\* lines 470-472
CashflowSave ==
    /\ cf_pc = "loop"
    /\ cf_i >= cf_n
    /\ cf_pc' = "done"
    /\ UNCHANGED <<cf_pobocky, cf_ucty, cf_n, cf_ucet_list, cf_i, cf_row>>

\* ------------------------------------------------------------------------
\* Specifications
\* ------------------------------------------------------------------------

vars == <<mzdyVars, budVars, uctyVars, txVars, prVars, nkVars, strVars, dtVars, prodVars, mainVars, pobVars, vzVars, cfVars>>

\* The two cross-product builders, gen_mzdy and gen_budget: a behaviour runs one
\* of them on an input drawn in the initial state
CrossInit ==
    /\ \/ MzdyInit /\ BudgetIdle
       \/ BudgetInit /\ MzdyIdle
    /\ UctyIdle
    /\ TxIdle
    /\ ProdejeIdle
    /\ NakupyIdle
    /\ StrediskaIdle
    /\ DatesIdle
    /\ ProduktyIdle
    /\ MainIdle
    /\ PobockyIdle
    /\ VzIdle
    /\ CashflowIdle

CrossNext ==
    \/ MzdyRow /\ UNCHANGED <<budVars, uctyVars, txVars, prVars, nkVars, strVars, dtVars, prodVars, mainVars, pobVars, vzVars, cfVars>>
    \/ MzdySave /\ UNCHANGED <<budVars, uctyVars, txVars, prVars, nkVars, strVars, dtVars, prodVars, mainVars, pobVars, vzVars, cfVars>>
    \/ BudgetFilter /\ UNCHANGED <<mzdyVars, uctyVars, txVars, prVars, nkVars, strVars, dtVars, prodVars, mainVars, pobVars, vzVars, cfVars>>
    \/ BudgetSample /\ UNCHANGED <<mzdyVars, uctyVars, txVars, prVars, nkVars, strVars, dtVars, prodVars, mainVars, pobVars, vzVars, cfVars>>
    \/ BudgetRow /\ UNCHANGED <<mzdyVars, uctyVars, txVars, prVars, nkVars, strVars, dtVars, prodVars, mainVars, pobVars, vzVars, cfVars>>
    \/ BudgetSave /\ UNCHANGED <<mzdyVars, uctyVars, txVars, prVars, nkVars, strVars, dtVars, prodVars, mainVars, pobVars, vzVars, cfVars>>

SpecCross == CrossInit /\ [][CrossNext]_vars

\* gen_ucty
UctySpecInit ==
    /\ UctyInit
    /\ MzdyIdle
    /\ BudgetIdle
    /\ TxIdle
    /\ ProdejeIdle
    /\ NakupyIdle
    /\ StrediskaIdle
    /\ DatesIdle
    /\ ProduktyIdle
    /\ MainIdle
    /\ PobockyIdle
    /\ VzIdle
    /\ CashflowIdle

UctySpecNext ==
    \/ UctyRow /\ UNCHANGED <<mzdyVars, budVars, txVars, prVars, nkVars, strVars, dtVars, prodVars, mainVars, pobVars, vzVars, cfVars>>
    \/ UctySave /\ UNCHANGED <<mzdyVars, budVars, txVars, prVars, nkVars, strVars, dtVars, prodVars, mainVars, pobVars, vzVars, cfVars>>

SpecUcty == UctySpecInit /\ [][UctySpecNext]_vars

\* gen_transakce on a row count and an account list drawn in the initial state
TxSpecInit ==
    /\ TxInit
    /\ MzdyIdle
    /\ BudgetIdle
    /\ UctyIdle
    /\ ProdejeIdle
    /\ NakupyIdle
    /\ StrediskaIdle
    /\ DatesIdle
    /\ ProduktyIdle
    /\ MainIdle
    /\ PobockyIdle
    /\ VzIdle
    /\ CashflowIdle

TxSpecNext ==
    \/ TxChunkBegin /\ UNCHANGED <<mzdyVars, budVars, uctyVars, prVars, nkVars, strVars, dtVars, prodVars, mainVars, pobVars, vzVars, cfVars>>
    \/ TxDraw /\ UNCHANGED <<mzdyVars, budVars, uctyVars, prVars, nkVars, strVars, dtVars, prodVars, mainVars, pobVars, vzVars, cfVars>>
    \/ TxRedraw /\ UNCHANGED <<mzdyVars, budVars, uctyVars, prVars, nkVars, strVars, dtVars, prodVars, mainVars, pobVars, vzVars, cfVars>>
    \/ TxAppend /\ UNCHANGED <<mzdyVars, budVars, uctyVars, prVars, nkVars, strVars, dtVars, prodVars, mainVars, pobVars, vzVars, cfVars>>
    \/ TxChunkEnd /\ UNCHANGED <<mzdyVars, budVars, uctyVars, prVars, nkVars, strVars, dtVars, prodVars, mainVars, pobVars, vzVars, cfVars>>
    \/ TxConcat /\ UNCHANGED <<mzdyVars, budVars, uctyVars, prVars, nkVars, strVars, dtVars, prodVars, mainVars, pobVars, vzVars, cfVars>>

SpecTransakce == TxSpecInit /\ [][TxSpecNext]_vars

\* gen_prodeje and gen_nakupy: a behaviour runs one of them
ObchodInit ==
    /\ \/ ProdejeInit /\ NakupyIdle
       \/ NakupyInit /\ ProdejeIdle
    /\ MzdyIdle
    /\ BudgetIdle
    /\ UctyIdle
    /\ TxIdle
    /\ StrediskaIdle
    /\ DatesIdle
    /\ ProduktyIdle
    /\ MainIdle
    /\ PobockyIdle
    /\ VzIdle
    /\ CashflowIdle

ObchodNext ==
    \/ ProdejeRow /\ UNCHANGED <<mzdyVars, budVars, uctyVars, txVars, nkVars, strVars, dtVars, prodVars, mainVars, pobVars, vzVars, cfVars>>
    \/ ProdejeSave /\ UNCHANGED <<mzdyVars, budVars, uctyVars, txVars, nkVars, strVars, dtVars, prodVars, mainVars, pobVars, vzVars, cfVars>>
    \/ NakupyRow /\ UNCHANGED <<mzdyVars, budVars, uctyVars, txVars, prVars, strVars, dtVars, prodVars, mainVars, pobVars, vzVars, cfVars>>
    \/ NakupySave /\ UNCHANGED <<mzdyVars, budVars, uctyVars, txVars, prVars, strVars, dtVars, prodVars, mainVars, pobVars, vzVars, cfVars>>

SpecObchod == ObchodInit /\ [][ObchodNext]_vars

\* gen_strediska on a branch table drawn in the initial state
StrSpecInit ==
    /\ StrediskaInit
    /\ MzdyIdle
    /\ BudgetIdle
    /\ UctyIdle
    /\ TxIdle
    /\ ProdejeIdle
    /\ NakupyIdle
    /\ DatesIdle
    /\ ProduktyIdle
    /\ MainIdle
    /\ PobockyIdle
    /\ VzIdle
    /\ CashflowIdle

StrSpecNext ==
    \/ StrediskaRow /\ UNCHANGED <<mzdyVars, budVars, uctyVars, txVars, prVars, nkVars, dtVars, prodVars, mainVars, pobVars, vzVars, cfVars>>
    \/ StrediskaSave /\ UNCHANGED <<mzdyVars, budVars, uctyVars, txVars, prVars, nkVars, dtVars, prodVars, mainVars, pobVars, vzVars, cfVars>>

SpecStrediska == StrSpecInit /\ [][StrSpecNext]_vars

\* random_dates and seasonal_dates, called with arguments drawn in the initial state
DatesSpecInit ==
    /\ DatesInit
    /\ MzdyIdle
    /\ BudgetIdle
    /\ UctyIdle
    /\ TxIdle
    /\ ProdejeIdle
    /\ NakupyIdle
    /\ StrediskaIdle
    /\ ProduktyIdle
    /\ MainIdle
    /\ PobockyIdle
    /\ VzIdle
    /\ CashflowIdle

DatesSpecNext ==
    \/ RandomDates /\ UNCHANGED <<mzdyVars, budVars, uctyVars, txVars, prVars, nkVars, strVars, prodVars, mainVars, pobVars, vzVars, cfVars>>
    \/ SeasonalDates /\ UNCHANGED <<mzdyVars, budVars, uctyVars, txVars, prVars, nkVars, strVars, prodVars, mainVars, pobVars, vzVars, cfVars>>

SpecDates == DatesSpecInit /\ [][DatesSpecNext]_vars

\* gen_produkty
ProdSpecInit ==
    /\ ProduktyInit
    /\ MzdyIdle
    /\ BudgetIdle
    /\ UctyIdle
    /\ TxIdle
    /\ ProdejeIdle
    /\ NakupyIdle
    /\ StrediskaIdle
    /\ DatesIdle
    /\ MainIdle
    /\ PobockyIdle
    /\ VzIdle
    /\ CashflowIdle

ProdSpecNext ==
    \/ ProduktyRow /\ UNCHANGED <<mzdyVars, budVars, uctyVars, txVars, prVars, nkVars, strVars, dtVars, mainVars, pobVars, vzVars, cfVars>>
    \/ ProduktySave /\ UNCHANGED <<mzdyVars, budVars, uctyVars, txVars, prVars, nkVars, strVars, dtVars, mainVars, pobVars, vzVars, cfVars>>

SpecProdukty == ProdSpecInit /\ [][ProdSpecNext]_vars

\* Two runs of the program: the import and main()
Init ==
    /\ MainInit
    /\ MzdyIdle
    /\ BudgetIdle
    /\ UctyIdle
    /\ TxIdle
    /\ ProdejeIdle
    /\ NakupyIdle
    /\ StrediskaIdle
    /\ DatesIdle
    /\ ProduktyIdle
    /\ PobockyIdle
    /\ VzIdle
    /\ CashflowIdle

Next ==
    \/ MainRunImport /\ UNCHANGED <<mzdyVars, budVars, uctyVars, txVars, prVars, nkVars, strVars, dtVars, prodVars, pobVars, vzVars, cfVars>>
    \/ MainRunCall /\ UNCHANGED <<mzdyVars, budVars, uctyVars, txVars, prVars, nkVars, strVars, dtVars, prodVars, pobVars, vzVars, cfVars>>
    \/ MainRunStats /\ UNCHANGED <<mzdyVars, budVars, uctyVars, txVars, prVars, nkVars, strVars, dtVars, prodVars, pobVars, vzVars, cfVars>>

Spec == Init /\ [][Next]_vars

\* gen_pobocky on a region table drawn in the initial state
PobSpecInit ==
    /\ PobockyInit
    /\ MzdyIdle
    /\ BudgetIdle
    /\ UctyIdle
    /\ TxIdle
    /\ ProdejeIdle
    /\ NakupyIdle
    /\ StrediskaIdle
    /\ DatesIdle
    /\ ProduktyIdle
    /\ MainIdle
    /\ VzIdle
    /\ CashflowIdle

PobSpecNext ==
    \/ PobockyRow /\ UNCHANGED <<mzdyVars, budVars, uctyVars, txVars, prVars, nkVars, strVars, dtVars, prodVars, mainVars, vzVars, cfVars>>
    \/ PobockySave /\ UNCHANGED <<mzdyVars, budVars, uctyVars, txVars, prVars, nkVars, strVars, dtVars, prodVars, mainVars, vzVars, cfVars>>

SpecPobocky == PobSpecInit /\ [][PobSpecNext]_vars

\* gen_vyrobni_zakazky or gen_cashflow on tables drawn in the initial state
FallbackInit ==
    /\ \/ VzInit /\ CashflowIdle
       \/ CashflowInit /\ VzIdle
    /\ MzdyIdle
    /\ BudgetIdle
    /\ UctyIdle
    /\ TxIdle
    /\ ProdejeIdle
    /\ NakupyIdle
    /\ StrediskaIdle
    /\ DatesIdle
    /\ ProduktyIdle
    /\ MainIdle
    /\ PobockyIdle

FallbackNext ==
    \/ VzFilter /\ UNCHANGED <<mzdyVars, budVars, uctyVars, txVars, prVars, nkVars, strVars, dtVars, prodVars, mainVars, pobVars, cfVars>>
    \/ VzRow /\ UNCHANGED <<mzdyVars, budVars, uctyVars, txVars, prVars, nkVars, strVars, dtVars, prodVars, mainVars, pobVars, cfVars>>
    \/ VzRaise /\ UNCHANGED <<mzdyVars, budVars, uctyVars, txVars, prVars, nkVars, strVars, dtVars, prodVars, mainVars, pobVars, cfVars>>
    \/ VzSave /\ UNCHANGED <<mzdyVars, budVars, uctyVars, txVars, prVars, nkVars, strVars, dtVars, prodVars, mainVars, pobVars, cfVars>>
    \/ CashflowFilter /\ UNCHANGED <<mzdyVars, budVars, uctyVars, txVars, prVars, nkVars, strVars, dtVars, prodVars, mainVars, pobVars, vzVars>>
    \/ CashflowRow /\ UNCHANGED <<mzdyVars, budVars, uctyVars, txVars, prVars, nkVars, strVars, dtVars, prodVars, mainVars, pobVars, vzVars>>
    \/ CashflowRaise /\ UNCHANGED <<mzdyVars, budVars, uctyVars, txVars, prVars, nkVars, strVars, dtVars, prodVars, mainVars, pobVars, vzVars>>
    \/ CashflowSave /\ UNCHANGED <<mzdyVars, budVars, uctyVars, txVars, prVars, nkVars, strVars, dtVars, prodVars, mainVars, pobVars, vzVars>>

SpecFallback == FallbackInit /\ [][FallbackNext]_vars

\* ------------------------------------------------------------------------
\* Properties
\* ------------------------------------------------------------------------

\* C1: in every payroll row, cista_mzda + soc_pojisteni_zam + zdr_pojisteni_zam +
\* dan_z_prijmu equals hruba_mzda_celkem within 0.01 (amounts in 1/10 hal).
C1_NetPlusDeductionsIsGross ==
    mzdy_row # NoRow =>
        Abs(mzdy_row.cista_mzda
            + 10 * (mzdy_row.soc_pojisteni_zam + mzdy_row.zdr_pojisteni_zam
                    + mzdy_row.dan_z_prijmu)
            - 10 * mzdy_row.hruba_mzda_celkem) <= 10

\* the sum of the count fields of the first g groups
RECURSIVE SumCounts(_)
SumCounts(g) == IF g = 0 THEN 0 ELSE Groups[g][2] + SumCounts(g - 1)

\* C2: the chart of accounts holds no two rows with the same ucet_cislo, and as
\* many rows as the counts of the groups add up to.
C2_DistinctAccounts ==
    ucty_pc = "done" =>
        /\ \A a, b \in DOMAIN ucty_rows :
              a # b => ucty_rows[a].ucet_cislo # ucty_rows[b].ucet_cislo
        /\ Len(ucty_rows) = SumCounts(Len(Groups))

\* C3: in every transaction row the debit account key is not the credit account
\* key, whatever the draws return.
C3_DebitNotCredit ==
    \A r \in Range(tx_rows) \cup Range(Concat(tx_chunks)) \cup Range(tx_df) :
        r.ucet_md # r.ucet_dal

\* A row was appended after the while loop had to draw the credit account again.
C3_Witness ==
    /\ tx_pc = "row"
    /\ tx_redrawn
    /\ tx_rows # <<>>
    /\ tx_rows[Len(tx_rows)].ucet_dal = tx_dal

\* |celkem_s_dph - celkem_bez_dph x (1 + dph_sazba)| <= 0.01, in 1/100 hal; the
\* product is split to stay below 2^31
GrossWithinCent(row) ==
    LET c == row.celkem_bez_dph
        f == 100 + row.dph_sazba
    IN  Abs(100 * (row.celkem_s_dph - (c \div 100) * f) - (c % 100) * f) <= 100

\* C4: in every sales row and every purchase row celkem_s_dph is within 0.01 of
\* celkem_bez_dph x (1 + dph_sazba), celkem_bez_dph being the rounded net total
\* stored in the row.
C4_GrossIsNetTimesVat ==
    /\ pr_row # NoRow => GrossWithinCent(pr_row)
    /\ nk_row # NoRow => GrossWithinCent(nk_row)

\* A discounted sale whose gross total fell on an exact half hal and was rounded.
C4_Witness ==
    /\ pr_row # NoRow
    /\ pr_row.sleva_pct > 0
    /\ ((pr_row.celkem_bez_dph % 100) * (100 + pr_row.dph_sazba)) % 100 = 50

\* A purchase with VAT whose gross total was rounded.
NakupRounded ==
    /\ nk_row # NoRow
    /\ nk_row.dph_sazba = 15
    /\ ((nk_row.celkem_bez_dph % 100) * 115) % 100 # 0

\* C5: gen_mzdy returns one row per active employee and period of 2023-2025,
\* (active employees) x 36 rows in all; gen_budget returns (cost centers) x
\* min(BudgetPick, accounts of type Naklady or Vynosy) x 36 rows.
C5_CrossProduct ==
    /\ mzdy_pc = "done" =>
          LET active == {i \in DOMAIN zamestnanci : zamestnanci[i].stav = "Aktivni"} IN
          /\ Len(mzdy_keys) = Cardinality(active) * 36
          /\ Range(mzdy_keys) =
                {<<i, Obdobi(y, m)>> : i \in active, y \in 2023..2025, m \in 1..12}
    /\ bud_pc = "done" =>
          LET eligible == {i \in DOMAIN bud_ucty : bud_ucty[i].typ \in {"Naklady", "Vynosy"}} IN
          bud_n = Len(bud_strediska) * Min(BudgetPick, Cardinality(eligible)) * 36

\* A budget run over two cost centers whose account table had more eligible
\* accounts than the cap, so that both samples were taken.
C5_Witness ==
    /\ bud_pc = "done"
    /\ Len(bud_strediska) = 2
    /\ Len(BudgetEligible(bud_ucty)) > BudgetCap
    /\ bud_n > 0

\* A payroll run over a table with an active and an inactive employee.
MzdyMixedDone ==
    /\ mzdy_pc = "done"
    /\ \E i, j \in DOMAIN zamestnanci :
          zamestnanci[i].stav = "Aktivni" /\ zamestnanci[j].stav = "Neaktivni"

\* the positions of the rows whose stredisko_id is id
RowsNamed(rows, id) == {k \in DOMAIN rows : rows[k].stredisko_id = id}

\* following the parent references from row i ends at a row without parent
RECURSIVE ReachesRoot(_, _, _)
ReachesRoot(rows, i, fuel) ==
    IF rows[i].nadrazene_stredisko = None THEN TRUE
    ELSE IF fuel = 0 \/ RowsNamed(rows, rows[i].nadrazene_stredisko) = {} THEN FALSE
    ELSE ReachesRoot(rows, CHOOSE k \in RowsNamed(rows, rows[i].nadrazene_stredisko) : TRUE,
                     fuel - 1)

\* C6: the first cost center has no parent; every other one names as parent a
\* cost center generated before it (so never itself), and following the parent
\* references from any cost center reaches a root.
C6_ParentBeforeChild ==
    \A i \in DOMAIN str_rows :
        IF i = 1
        THEN str_rows[i].nadrazene_stredisko = None
        ELSE /\ RowsNamed(str_rows, str_rows[i].nadrazene_stredisko) # {}
             /\ \A k \in RowsNamed(str_rows, str_rows[i].nadrazene_stredisko) : k < i
             /\ ReachesRoot(str_rows, i, Len(str_rows))

\* The finished table holds a chain of three: the last row's parent is the row
\* before it, whose parent is not the root.
C6_Witness ==
    /\ str_pc = "done"
    /\ LET n == Len(str_rows) IN
       /\ str_rows[n].nadrazene_stredisko = str_rows[n - 1].stredisko_id
       /\ str_rows[n - 1].nadrazene_stredisko = str_rows[n - 2].stredisko_id

C8_ChunkedIds ==
    tx_pc \in {"done", "raised"} =>
        /\ tx_pc = "done"
        /\ Len(tx_df) = tx_n
        /\ \A k \in 1..Len(tx_df) : tx_df[k].transakce_id = <<"TX">> \o ZPad(k, 7)

\* The part of C8 the code meets: whenever a table is returned it has n rows with
\* the ids in order, across chunk boundaries.
TxIdsWhenReturned ==
    tx_pc = "done" =>
        /\ Len(tx_df) = tx_n
        /\ \A k \in 1..Len(tx_df) : tx_df[k].transakce_id = <<"TX">> \o ZPad(k, 7)

\* A table of more than two chunks, the last one short, was returned.
TxThreeChunksDone ==
    tx_pc = "done" /\ Len(tx_chunks) >= 3 /\ Len(tx_chunks[Len(tx_chunks)]) < ChunkSize

\* C9: random_dates and seasonal_dates return exactly n dates, each of them in
\* [start, end]; both ends can be drawn (C9_Witness).
C9_DatesInRange ==
    dt_pc = "done" =>
        /\ Len(dt_out) = dt_n
        /\ \A k \in DOMAIN dt_out : dt_start <= dt_out[k] /\ dt_out[k] <= dt_end

\* seasonal_dates returned the first and the last day of a range that spans a
\* change of month.
C9_Witness ==
    /\ dt_pc = "done"
    /\ dt_fn = "seasonal"
    /\ dt_start < dt_end
    /\ MonthOf(dt_start) # MonthOf(dt_end)
    /\ dt_out = <<dt_start, dt_end>>

\* random_dates returned the last and the first day of a range.
RandomDatesBothEnds ==
    /\ dt_pc = "done"
    /\ dt_fn = "random"
    /\ dt_start < dt_end
    /\ dt_out = <<dt_end, dt_start>>

\* C10: in every product row nakladova_cena is strictly below prodejni_cena, for
\* every sell price in [50, 50000] and margin in [0.1, 0.6], after rounding.
C10_CostBelowPrice ==
    prod_row # NoRow => prod_row.nakladova_cena < prod_row.prodejni_cena

\* The cheapest product with the smallest margin: 50.00 and 45.00.
C10_Witness ==
    /\ prod_row # NoRow
    /\ prod_row.prodejni_cena = 5000
    /\ prod_marze = 100
    /\ prod_row.nakladova_cena = 4500

\* the sum of the lengths of the city lists of the first g entries of mesta
RECURSIVE SumCities(_)
SumCities(g) == IF g = 0 THEN 0 ELSE Len(Mesta[g][2]) + SumCities(g - 1)

\* C11: for every region table passed to gen_pobocky, the branch table has as
\* many rows as the city lists have entries, and the region_id of every branch
\* row is the region_id of a row of the region table passed.
C11_BranchRegionsExist ==
    /\ pob_pc = "done" => Len(pob_rows) = SumCities(Len(Mesta))
    /\ \A k \in DOMAIN pob_rows :
          \E g \in DOMAIN pob_regiony : pob_regiony[g].region_id = pob_rows[k].region_id

\* The part of C11 the code meets: with the table gen_regiony returns, as main
\* passes it, every branch names a region of the table.
PobockyOfAllRegions ==
    pob_regiony = Regiony =>
        /\ pob_pc = "done" => Len(pob_rows) = SumCities(Len(Mesta))
        /\ \A k \in DOMAIN pob_rows :
              \E g \in DOMAIN pob_regiony : pob_regiony[g].region_id = pob_rows[k].region_id

\* gen_pobocky finished on the full region table.
PobockyAllDone ==
    pob_pc = "done" /\ pob_regiony = Regiony /\ Len(pob_rows) = 30

\* the builder that writes a file
BuilderOf(file) == CHOOSE b \in Range(Builders) : b.file = file

\* the files of the builders of one kind saved before position k of run r
SavedBefore(r, k, kind) ==
    {m_saved[r][j].file : j \in {x \in 1..(k - 1) : BuilderOf(m_saved[r][x].file).kind = kind}}

FilesOf(kind) == {b.file : b \in {x \in Range(Builders) : x.kind = kind}}

\* C12: in every run of main a builder is invoked only after every table it
\* takes as input has been built and saved, and each such table is a dimension
\* table; a fact builder is invoked only after all ten dimension builders have
\* completed; the summary is reported only after all seven fact builders have
\* completed.
C12_BottomUpOrder ==
    \A r \in Runs :
       /\ \A k \in DOMAIN m_saved[r] :
             LET e == m_saved[r][k]
                 b == BuilderOf(e.file)
             IN  /\ e.rows.fn = b.fn
                 /\ \A a \in DOMAIN b.args :
                       \E j \in 1..(k - 1) :
                          LET p == BuilderOf(m_saved[r][j].file)
                          IN  /\ p.var = b.args[a]
                              /\ p.kind = "dim"
                              /\ m_saved[r][j].rows = e.rows.given[a]
                 /\ b.kind = "fact" =>
                       /\ SavedBefore(r, k, "dim") = FilesOf("dim")
                       /\ Cardinality(FilesOf("dim")) = 10
       /\ (m_pc[r] = "done" \/ m_stats[r] # -1) =>
             /\ SavedBefore(r, Len(m_saved[r]) + 1, "fact") = FilesOf("fact")
             /\ Cardinality(FilesOf("fact")) = 7

\* A run has reported its summary and a fact builder that takes inputs has run.
C12_Witness ==
    \E r \in Runs :
       /\ m_pc[r] = "done"
       /\ \E k \in DOMAIN m_saved[r] :
             /\ BuilderOf(m_saved[r][k].file).kind = "fact"
             /\ Len(m_saved[r][k].rows.given) = 5

\* the ids of the rows of a table that satisfy Keep
IdsWhere(tab, Keep(_), col) == {tab[i][col] : i \in {x \in DOMAIN tab : Keep(tab[x])}}

\* the ids of the first k rows of a table
IdsOfHead(tab, k, col) == {tab[i][col] : i \in {x \in DOMAIN tab : x <= k}}

\* the reference of a row is drawn from the rows that pass the filter when
\* there is one, and from the first k rows otherwise
Resolves(ref, tab, Keep(_), col, k) ==
    IF IdsWhere(tab, Keep, col) # {}
    THEN ref \in IdsWhere(tab, Keep, col)
    ELSE ref \in IdsOfHead(tab, k, col)

\* every row built so far resolves its restricted references
RowsResolve ==
    /\ vz_row # NoRow =>
          /\ Resolves(vz_row.stredisko_id, vz_strediska, IsVyroba, "stredisko_id", StrediskaHead)
          /\ Resolves(vz_row.produkt_id, vz_produkty, IsVyrobni, "produkt_id", ProduktyHead)
    /\ cf_row # NoRow =>
          Resolves(cf_row.ucet, cf_ucty, IsFinancni, "ucet_cislo", UctyHead)

\* C13: for every product, cost-center and account table given, each order's
\* stredisko_id comes from the cost centers of type Vyroba when there is one
\* and otherwise from the first 10 cost centers, its produkt_id from the
\* manufacturing products and otherwise from the first 50 products, each
\* cash-flow row's ucet from the accounts of group Financni ucty and otherwise
\* from the first 10 accounts; and neither builder ever fails at run time.
C13_FallbackNeverFails ==
    /\ RowsResolve
    /\ vz_pc # "raised"
    /\ cf_pc # "raised"

\* The part of C13 the code meets: when the tables given have rows, no builder
\* fails and every reference resolves by filter, then fallback.
FallbackOnTablesWithRows ==
    /\ RowsResolve
    /\ vz_produkty # <<>> /\ vz_strediska # <<>> => vz_pc # "raised"
    /\ cf_ucty # <<>> => cf_pc # "raised"

\* An order was built from a fallback list cut to its head.
VzFallbackCut ==
    /\ vz_pc = "done"
    /\ vz_row # NoRow
    /\ Len(vz_str_vyr) = StrediskaHead /\ Len(vz_strediska) > StrediskaHead
    /\ Len(vz_vyr_produkty) = ProduktyHead /\ Len(vz_produkty) > ProduktyHead

\* A cash-flow row was built from the fallback list cut to its head.
CfFallbackCut ==
    /\ cf_pc = "done"
    /\ cf_row # NoRow
    /\ Len(cf_ucet_list) = UctyHead /\ Len(cf_ucty) > UctyHead

\* no two entries of a list are equal
Distinct(list) == \A i, j \in DOMAIN list : i # j => list[i] # list[j]

\* C14: in the table gen_budget builds from the chart of accounts gen_ucty
\* generates, no two rows share the key (stredisko_id, ucet_cislo, obdobi):
\* the accounts sampled for a cost center have pairwise distinct numbers.
C14_BudgetKeysDistinct ==
    bud_ucty = BudgetUctyRef => Distinct(bud_blok)

\* The part of C14 the code meets: from an account table whose numbers are
\* pairwise distinct, the keys of a cost center's rows are pairwise distinct.
BudgetKeysOfDistinctChart ==
    Distinct([i \in DOMAIN bud_ucty |-> bud_ucty[i].ucet_cislo]) => Distinct(bud_blok)

\* gen_budget finished on a table of at least two eligible accounts with
\* pairwise distinct numbers.
BudgetDistinctChartDone ==
    /\ bud_pc = "done"
    /\ Distinct([i \in DOMAIN bud_ucty |-> bud_ucty[i].ucet_cislo])
    /\ Len(BudgetEligible(bud_ucty)) >= 2
    /\ bud_n > 0

====
